---- MODULE Spec2Model ----
(***************************************************************************)
(* A model of pcky.py: the probabilistic CKY parser PCKYParser (grammar    *)
(* loading, the chart fill of parse, build_tree) and the CodeBook.         *)
(*                                                                         *)
(* Probabilities are exact rationals prob/Denom, kept as their numerators. *)
(* Every derivation of a span [i, j) in a CNF grammar uses 2(j-i)-1 rules, *)
(* so all the scores that are ever compared with each other (those of one  *)
(* cell) have the same denominator and compare as their numerators do.     *)
(* Floating-point rounding and underflow are outside the model.            *)
(***************************************************************************)
EXTENDS Integers, Sequences, FiniteSets, TLC

\* Longest token sequence handed to parse.
MaxLen == 3
\* Rule probabilities are the multiples k/Denom, 1 <= k <= Denom.
Denom == 3

Nonterminals == {"S", "A"}
Tokens == {"a", "b"}
\* Python's None (a label, a chart cell, an absent value).
None == "None"

RECURSIVE SumTo(_, _)
SumTo(w, k) == IF k = 0 THEN 0 ELSE w[k] + SumTo(w, k - 1)

(***************************************************************************)
(* Grammar files.  A file is a line of alternatives for S, the start       *)
(* symbol (the left-hand side of the first production), followed by a      *)
(* line for the preterminal A when an S rule mentions A.  NLTK's PCFG      *)
(* accepts a file when the probabilities of each left-hand side sum to 1;  *)
(* it accepts repeated alternatives and any right-hand-side shape.         *)
(* Every symbol of a right-hand side has a line of its own, so that        *)
(* index.get never answers None, and every probability is positive.        *)
(***************************************************************************)
CNFShapes == {<<"a">>, <<"S", "S">>, <<"A", "S">>, <<"A", "A">>}
NonCNFShapes == {<<"S">>, <<"S", "S", "S">>, <<"a", "S">>, <<>>}

Production(lhs, rhs, prob) == [lhs |-> lhs, rhs |-> rhs, prob |-> prob]

\* The alternatives of a line differ, but for a lexical alternative, which
\* a line may give twice (with the same or another probability).
Repeats(rs) ==
    \A x, y \in DOMAIN rs :
        (x < y /\ rs[x] = rs[y])
            => /\ Len(rs[x]) = 1
               /\ rs[x][1] \in Tokens
               /\ \A z \in DOMAIN rs : rs[z] = rs[x] => z \in {x, y}

Alternatives(lhs, shapes, k) ==
    { [n \in 1..k |-> Production(lhs, rs[n], ws[n])] :
        rs \in {r \in [1..k -> shapes] : Repeats(r)},
        ws \in {w \in [1..k -> 1..Denom] : SumTo(w, k) = Denom} }

SLines == UNION {Alternatives("S", CNFShapes \cup NonCNFShapes, k) : k \in 1..Denom}
ALines == {<<Production("A", <<t>>, Denom)>> : t \in Tokens}

Mentions(line, sym) == \E n \in DOMAIN line : \E m \in DOMAIN line[n].rhs : line[n].rhs[m] = sym

GrammarFiles ==
    {s \in SLines : ~Mentions(s, "A")}
        \cup {s \o a : s \in {l \in SLines : Mentions(l, "A")}, a \in ALines}

(***************************************************************************)
(* nltk.grammar, as pcky.py uses it.                                       *)
(***************************************************************************)
is_lexical(p) == \E m \in DOMAIN p.rhs : p.rhs[m] \notin Nonterminals
is_nonlexical(p) == \A m \in DOMAIN p.rhs : p.rhs[m] \in Nonterminals

\* PCFG.is_chomsky_normal_form: no empty production, at most two items,
\* longer productions all nonterminals, unary productions lexical.
is_chomsky_normal_form(g) ==
    \A n \in DOMAIN g :
        /\ Len(g[n].rhs) \in {1, 2}
        /\ Len(g[n].rhs) = 2 => is_nonlexical(g[n])
        /\ Len(g[n].rhs) = 1 => is_lexical(g[n])

\* grammar.start(): the left-hand side of the first production of the file.
start(g) == g[1].lhs

\* grammar.productions(rhs=word): the productions whose first right-hand
\* item is word, in file order.  (Tokens are non-empty strings: for an
\* empty word NLTK returns every production.)
productions_rhs(g, word) ==
    SelectSeq(g, LAMBDA p : Len(p.rhs) >= 1 /\ p.rhs[1] = word)

terminals(g) == SelectSeq(g, is_lexical)
nonterminals(g) == SelectSeq(g, is_nonlexical)

LhsSet(ps) == {ps[n].lhs : n \in DOMAIN ps}

(***************************************************************************)
(* CodeBook: names (index -> name) and index (name -> index).              *)
(***************************************************************************)
\* The enumerations of a set of names: one sequence per iteration order.
Enumerations(names) ==
    {e \in [1..Cardinality(names) -> names] : \A x, y \in DOMAIN e : x # y => e[x] # e[y]}

\* CodeBook.__init__(names), names enumerated in the order e.
CodeBook(e) ==
    [names |-> [x \in 0..(Len(e) - 1) |-> e[x + 1]],
     index |-> [nm \in {e[x] : x \in DOMAIN e} |-> CHOOSE x \in 0..(Len(e) - 1) : e[x + 1] = nm]]

contains(cb, name) == name \in DOMAIN cb.index
len(cb) == Cardinality(DOMAIN cb.index)
getitem(cb, name) == cb.index[name]
get(cb, name) == IF name \in DOMAIN cb.index THEN cb.index[name] ELSE None

addOffByOne(cb, name) ==
    IF ~contains(cb, name)
    THEN [names |-> [x \in DOMAIN cb.names \cup {len(cb) + 1} |->
                        IF x = len(cb) + 1 THEN name ELSE cb.names[x]],
          index |-> [nm \in DOMAIN cb.index \cup {name} |->
                        IF nm = name THEN len(cb) + 1 ELSE cb.index[nm]]]
    ELSE cb

\* CodeBook.add(name): the code book after the call.
add(cb, name) ==
    IF ~contains(cb, name)
    THEN [names |-> [x \in DOMAIN cb.names \cup {len(cb)} |->
                        IF x = len(cb) THEN name ELSE cb.names[x]],
          index |-> [nm \in DOMAIN cb.index \cup {name} |->
                        IF nm = name THEN len(cb) ELSE cb.index[nm]]]
    ELSE cb

NoCodeBook == [names |-> <<>>, index |-> <<>>]

(***************************************************************************)
(* The chart.  matrix[i, j, a] is a score; a cell of back_pointer_matrix   *)
(* holds None, a token (the right-hand side of a lexical production) or    *)
(* the tuple (k, B, C) of a binary production.                             *)
(***************************************************************************)
Cells(n, m) == (0..n) \X (0..n) \X (0..(m - 1))

NoneCell == [kind |-> "none", k |-> 0, left |-> None, right |-> None, tok |-> None]
TokenCell(t) == [kind |-> "token", k |-> 0, left |-> None, right |-> None, tok |-> t]
TupleCell(k, b, c) == [kind |-> "tuple", k |-> k, left |-> b, right |-> c, tok |-> None]

\* np.zeros(matrix_shape) and np.empty(matrix_shape, dtype=object).
zeros(n, m) == [c \in Cells(n, m) |-> 0]
empty(n, m) == [c \in Cells(n, m) |-> NoneCell]

Chart(M, B) == [matrix |-> M, back |-> B]

\* The chart a call of parse starts from, whatever the previous call left.
reuse_chart(old, n, m) ==
    IF DOMAIN old.matrix = Cells(n, m) THEN old ELSE Chart(zeros(n, m), empty(n, m))

new_chart(old, n, m) == Chart(zeros(n, m), empty(n, m))

lexical_fill_superdiagonal(cb, ch, j, production) ==
    LET a == getitem(cb, production.lhs)
    IN  Chart([ch.matrix EXCEPT ![<<j - 1, j, a>>] = production.prob],
              [ch.back EXCEPT ![<<j - 1, j, a>>] = TokenCell(production.rhs[1])])

\* One pass of the loop over grammar.productions(rhs=word).
lexical_fill(cb, ch, j, production) ==
    LET a == getitem(cb, production.lhs)
    IN  Chart([ch.matrix EXCEPT ![<<j - 1, j, a>>] = production.prob],
              [ch.back EXCEPT ![<<j, j, a>>] = TokenCell(production.rhs[1])])

binary_fill_no_backpointer(cb, ch, i, j, k, production) ==
    LET a == get(cb, production.lhs)
        b == get(cb, production.rhs[1])
        c == get(cb, production.rhs[2])
        score == production.prob * ch.matrix[<<i, k, b>>] * ch.matrix[<<k, j, c>>]
    IN  IF ch.matrix[<<i, j, a>>] < score
        THEN Chart([ch.matrix EXCEPT ![<<i, j, a>>] = score],
                   IF ch.back[<<i, j, a>>].kind = "none"
                   THEN [ch.back EXCEPT ![<<i, j, a>>] =
                            TupleCell(k, production.rhs[1], production.rhs[2])]
                   ELSE ch.back)
        ELSE ch

\* One pass of the innermost loop, over self.nonterminals().
binary_fill(cb, ch, i, j, k, production) ==
    LET a == get(cb, production.lhs)
        b == get(cb, production.rhs[1])
        c == get(cb, production.rhs[2])
        left == ch.matrix[<<i, k, b>>]
        right == ch.matrix[<<k, j, c>>]
        score == production.prob * left * right
    IN  IF ch.matrix[<<i, j, a>>] < score
        THEN Chart([ch.matrix EXCEPT ![<<i, j, a>>] = score],
                   [ch.back EXCEPT ![<<i, j, a>>] =
                        TupleCell(k, production.rhs[1], production.rhs[2])])
        ELSE ch

(***************************************************************************)
(* Trees.  Tree(label, children) is an nltk Tree; a child is a Tree or a   *)
(* leaf, the object found in a chart cell.  Raised(e) is build_tree        *)
(* leaving by the exception e instead of returning.                        *)
(***************************************************************************)
Tree(label, children) == [kind |-> "tree", label |-> label, children |-> children]
LeafOf(cell) == [kind |-> "leaf",
                 label |-> IF cell.kind = "token" THEN cell.tok
                           ELSE IF cell.kind = "none" THEN None ELSE "tuple",
                 children |-> <<>>]
Raised(e) == [kind |-> "raise", label |-> e, children |-> <<>>]
NullTree == Tree(None, <<>>)

RECURSIVE build_tree(_, _, _, _, _, _, _)
build_tree(g, cb, n, back_, row, col, root) ==
    LET a == getitem(cb, root)
    IN  IF root \in LhsSet(terminals(g))
        THEN \* back[row+1, row+1, a]: IndexError past the last row
             IF row + 1 > n
             THEN Raised("IndexError")
             ELSE Tree(root, <<LeafOf(back_[<<row + 1, row + 1, a>>])>>)
        ELSE LET cell == back_[<<row, col, a>>]
             IN  IF cell.kind = "none"
                 THEN NullTree             \* except TypeError
                 ELSE IF cell.kind = "token"
                 THEN Raised("ValueError") \* a one-character token does not unpack
                 ELSE LET l == build_tree(g, cb, n, back_, row, cell.k, cell.left)
                      IN  IF l.kind = "raise" THEN l
                          ELSE LET r == build_tree(g, cb, n, back_, cell.k, col, cell.right)
                               IN  IF r.kind = "raise" THEN r
                                   ELSE Tree(root, <<l, r>>)

(***************************************************************************)
(* The position of parse in its loops: pc names the statement about to     *)
(* run, j, i, k are the loop variables and r the place of the current      *)
(* production in the list being iterated.                                  *)
(***************************************************************************)
RECURSIVE EnterJ(_, _, _, _)
RECURSIVE EnterI(_, _, _, _, _)
\* for j in range(1, len(words)+1), from j on: the next loop body to run.
EnterJ(g, w, j, p) ==
    IF j > Len(w) THEN [p EXCEPT !.pc = "build"]
    ELSE IF productions_rhs(g, w[j]) # <<>>
         THEN [p EXCEPT !.pc = "lex", !.j = j, !.r = 1]
         ELSE EnterI(g, w, j, j - 2, [p EXCEPT !.j = j])
\* for i in range(j-2, -1, -1), from i on.
EnterI(g, w, j, i, p) ==
    IF i < 0 THEN EnterJ(g, w, j + 1, p)
    ELSE IF nonterminals(g) = <<>>
         THEN EnterJ(g, w, j + 1, [p EXCEPT !.i = 0, !.k = j - 1])
         ELSE [p EXCEPT !.pc = "bin", !.i = i, !.k = i + 1, !.r = 1]

AfterLex(g, w, p) ==
    IF p.r < Len(productions_rhs(g, w[p.j])) THEN [p EXCEPT !.r = p.r + 1]
    ELSE EnterI(g, w, p.j, p.j - 2, p)

AfterBin(g, w, p) ==
    IF p.r < Len(nonterminals(g)) THEN [p EXCEPT !.r = p.r + 1]
    ELSE IF p.k < p.j - 1 THEN [p EXCEPT !.k = p.k + 1, !.r = 1]
    ELSE EnterI(g, w, p.j, p.i - 1, p)

(***************************************************************************)
(* State.                                                                  *)
(***************************************************************************)
VARIABLES
    file,                 \* the productions of the grammar file at grammar_path
    grammar,              \* self.grammar, <<>> while there is no parser
    index,                \* self.index, a CodeBook
    words,                \* the argument of the running (or last) call of parse
    matrix,               \* parse's local matrix
    back_pointer_matrix,  \* parse's local back_pointer_matrix
    pos,                  \* the control position: [pc, j, i, k, r]
    result,               \* what the last call of parse returned or raised
    err,                  \* the message of the ValueError of the constructor
    reads,                \* history: the score cells read as operands in this call
    added                 \* history: the argument of the last CodeBook.add

vars == <<file, grammar, index, words, matrix, back_pointer_matrix, pos, result,
          err, reads, added>>

NoResult == [kind |-> "none", label |-> None, children |-> <<>>]
Position(pc) == [pc |-> pc, j |-> 0, i |-> 0, k |-> 0, r |-> 0]
NotCNFMessage == "grammar not in Chomsky normal form"

Words == UNION {[1..n -> Tokens] : n \in 0..MaxLen}

Init ==
    /\ file \in GrammarFiles
    /\ grammar = <<>>
    /\ index = NoCodeBook
    /\ words = <<>>
    /\ matrix = <<>>
    /\ back_pointer_matrix = <<>>
    /\ pos = Position("new")
    /\ result = NoResult
    /\ err = None
    /\ reads = {}
    /\ added = None

load_grammar_unchecked(f) == [error |-> None, pcfg |-> f]

\* load_grammar(grammar_path): the PCFG it returns, or the ValueError it raises.
load_grammar(f) ==
    IF ~is_chomsky_normal_form(f)
    THEN [error |-> NotCNFMessage, pcfg |-> <<>>]
    ELSE [error |-> None, pcfg |-> f]

\* PCKYParser(grammar_path).
PCKYParser ==
    /\ pos.pc = "new"
    /\ LET loaded == load_grammar(file)
       IN  \/ /\ loaded.error # None
              /\ err' = loaded.error
              /\ pos' = Position("failed")
              /\ UNCHANGED <<grammar, index>>
           \/ /\ loaded.error = None
              /\ grammar' = loaded.pcfg
              /\ \E e \in Enumerations(LhsSet(loaded.pcfg)) : index' = CodeBook(e)
              /\ pos' = Position("ready")
              /\ err' = None
    /\ UNCHANGED <<file, words, matrix, back_pointer_matrix, result, reads, added>>

\* parser.parse(w), up to the first loop body: the tables are allocated.
parse(w) ==
    /\ pos.pc \in {"ready", "done", "raised"}
    /\ words' = w
    /\ LET ch == new_chart(Chart(matrix, back_pointer_matrix), Len(w), len(index))
       IN  /\ matrix' = ch.matrix
           /\ back_pointer_matrix' = ch.back
    /\ pos' = EnterJ(grammar, w, 1, Position("call"))
    /\ result' = NoResult
    /\ reads' = {}
    /\ UNCHANGED <<file, grammar, index, err, added>>

\* Lines 59-61 for the r-th production of grammar.productions(rhs=word).
LexicalFill ==
    /\ pos.pc = "lex"
    /\ LET production == productions_rhs(grammar, words[pos.j])[pos.r]
           ch == lexical_fill(index, Chart(matrix, back_pointer_matrix), pos.j, production)
       IN  /\ matrix' = ch.matrix
           /\ back_pointer_matrix' = ch.back
    /\ pos' = AfterLex(grammar, words, pos)
    /\ UNCHANGED <<file, grammar, index, words, result, err, reads, added>>

\* Lines 66-75 for the r-th production of self.nonterminals() at (i, k).
BinaryFill ==
    /\ pos.pc = "bin"
    /\ LET production == nonterminals(grammar)[pos.r]
           ch == binary_fill(index, Chart(matrix, back_pointer_matrix),
                             pos.i, pos.j, pos.k, production)
       IN  /\ matrix' = ch.matrix
           /\ back_pointer_matrix' = ch.back
           /\ reads' = reads \cup {<<pos.i, pos.k, get(index, production.rhs[1])>>,
                                   <<pos.k, pos.j, get(index, production.rhs[2])>>}
    /\ pos' = AfterBin(grammar, words, pos)
    /\ UNCHANGED <<file, grammar, index, words, result, err, added>>

\* Lines 76-81: build_tree(back_pointer_matrix, 0, len(words), start).
BuildTree ==
    /\ pos.pc = "build"
    /\ result' = build_tree(grammar, index, Len(words), back_pointer_matrix,
                            0, Len(words), start(grammar))
    /\ pos' = [pos EXCEPT !.pc = IF result'.kind = "raise" THEN "raised" ELSE "done"]
    /\ UNCHANGED <<file, grammar, index, words, matrix, back_pointer_matrix, err,
                   reads, added>>

Next ==
    \/ PCKYParser
    \/ \E w \in Words : parse(w)
    \/ LexicalFill
    \/ BinaryFill
    \/ BuildTree

Spec == Init /\ [][Next]_vars

(***************************************************************************)
(* What the grammar itself says, computed without the chart: the           *)
(* derivations of a token span from a symbol, by exhaustive search.        *)
(***************************************************************************)
Max(S) == IF S = {} THEN 0 ELSE CHOOSE x \in S : \A y \in S : y <= x

RulesFor(g, lhs, rhs) == {n \in DOMAIN g : g[n].lhs = lhs /\ g[n].rhs = rhs}

\* The greatest probability of a derivation of w[i+1..j] from X, 0 if none.
RECURSIVE BestProb(_, _, _, _, _)
BestProb(g, w, X, i, j) ==
    IF j = i + 1
    THEN Max({g[n].prob : n \in RulesFor(g, X, <<w[j]>>)})
    ELSE IF j <= i THEN 0
    ELSE Max({g[n].prob * BestProb(g, w, g[n].rhs[1], i, k)
                        * BestProb(g, w, g[n].rhs[2], k, j) :
                n \in {x \in DOMAIN g : g[x].lhs = X /\ is_nonlexical(g[x])},
                k \in (i + 1)..(j - 1)})

\* The tokens at the leaves of a tree, left to right.
RECURSIVE Leaves(_)
Leaves(t) ==
    IF t.kind = "leaf" THEN <<t.label>>
    ELSE IF Len(t.children) = 0 THEN <<>>
    ELSE IF Len(t.children) = 1 THEN Leaves(t.children[1])
    ELSE Leaves(t.children[1]) \o Leaves(t.children[2])

\* The probability of t as a derivation of w[i+1..j] from X: the product of
\* the probabilities of its rules, 0 when t is no such derivation.
RECURSIVE DerivationProb(_, _, _, _, _, _)
DerivationProb(g, w, t, X, i, j) ==
    IF t.kind # "tree" \/ t.label # X \/ j <= i THEN 0
    ELSE IF Len(t.children) = 1
    THEN IF j = i + 1 /\ t.children[1].kind = "leaf" /\ t.children[1].label = w[j]
         THEN Max({g[n].prob : n \in RulesFor(g, X, <<w[j]>>)})
         ELSE 0
    ELSE IF Len(t.children) = 2
    THEN LET l == t.children[1]
             r == t.children[2]
             k == i + Len(Leaves(l))
         IN  IF l.kind # "tree" \/ r.kind # "tree" \/ k <= i \/ k >= j THEN 0
             ELSE Max({g[n].prob : n \in RulesFor(g, X, <<l.label, r.label>>)})
                    * DerivationProb(g, w, l, l.label, i, k)
                    * DerivationProb(g, w, r, r.label, k, j)
    ELSE 0

Returned == pos.pc = "done"
Finished == pos.pc \in {"done", "raised"}

(***************************************************************************)
(* C1. Soundness: a non-null tree returned by parse has exactly the input  *)
(* tokens at its leaves, in order.                                         *)
(***************************************************************************)
C1_Soundness ==
    (Returned /\ result # NullTree) => Leaves(result) = words

(***************************************************************************)
(* C2. Optimality: when the start symbol derives the tokens, parse returns *)
(* a derivation of them from the start symbol whose probability is the     *)
(* greatest among all such derivations.                                    *)
(***************************************************************************)
C2_Optimality ==
    (Finished /\ BestProb(grammar, words, start(grammar), 0, Len(words)) > 0)
        => /\ Returned
           /\ DerivationProb(grammar, words, result, start(grammar), 0, Len(words))
                = BestProb(grammar, words, start(grammar), 0, Len(words))

(***************************************************************************)
(* C3. Ungrammatical input: when the start symbol does not derive the      *)
(* tokens, parse returns the null tree and does not raise.                 *)
(***************************************************************************)
C3_UngrammaticalIsNull ==
    (Finished /\ BestProb(grammar, words, start(grammar), 0, Len(words)) = 0)
        => (Returned /\ result = NullTree)

(***************************************************************************)
(* C4. Empty input: parse([]) stays inside its tables (raises no           *)
(* IndexError) and returns the null tree.                                  *)
(***************************************************************************)
C4_EmptyInput ==
    (Finished /\ words = <<>>) => (Returned /\ result = NullTree)

(***************************************************************************)
(* C5. Non-CNF rejection: the constructor fails on a grammar that is not   *)
(* in Chomsky normal form with ValueError "grammar not in Chomsky normal   *)
(* form", before the code book is built: no parser exists, so parse never  *)
(* runs against such a grammar.  A CNF grammar does not fail this way.     *)
(***************************************************************************)
C5_NonCNFRejected ==
    /\ (pos.pc # "new" /\ ~is_chomsky_normal_form(file))
          => /\ pos.pc = "failed"
             /\ err = NotCNFMessage
             /\ grammar = <<>>
             /\ index = NoCodeBook
    /\ is_chomsky_normal_form(file) => (pos.pc # "failed" /\ err = None)

C5_Witness ==
    /\ pos.pc = "failed"
    /\ ~is_chomsky_normal_form(file)
    /\ err = NotCNFMessage

(***************************************************************************)
(* parse as a function of the grammar, the code book and the tokens: the   *)
(* loop bodies applied in the order of the loops to freshly allocated      *)
(* tables, then build_tree.                                                *)
(***************************************************************************)
RECURSIVE fill(_, _, _, _, _)
fill(g, cb, w, ch, p) ==
    IF p.pc = "lex"
    THEN fill(g, cb, w, lexical_fill(cb, ch, p.j, productions_rhs(g, w[p.j])[p.r]),
              AfterLex(g, w, p))
    ELSE IF p.pc = "bin"
    THEN fill(g, cb, w, binary_fill(cb, ch, p.i, p.j, p.k, nonterminals(g)[p.r]),
              AfterBin(g, w, p))
    ELSE ch

parse_of(g, cb, w) ==
    LET ch == fill(g, cb, w, new_chart(Chart(<<>>, <<>>), Len(w), len(cb)),
                   EnterJ(g, w, 1, Position("call")))
    IN  build_tree(g, cb, Len(w), ch.back, 0, Len(w), start(g))

(***************************************************************************)
(* C6. Determinism: what a call of parse returns (or raises) is a function *)
(* of the grammar and the tokens alone: it is the same after any earlier   *)
(* calls on the parser, and the same under every order in which the code   *)
(* book may have numbered the symbols.                                     *)
(***************************************************************************)
C6_Determinism ==
    Finished =>
        \A e \in Enumerations(LhsSet(grammar)) :
            parse_of(grammar, CodeBook(e), words) = result

C6_Witness ==
    /\ Returned
    /\ len(index) = 2
    /\ index.index["S"] = 1
    /\ result.kind = "tree"
    /\ Len(result.children) = 2
    /\ Len(words) = 3

(***************************************************************************)
(* C7. The tables when the fill phase has ended.                           *)
(***************************************************************************)
FillEnded == pos.pc \in {"build", "done", "raised"}

SymbolsOf(cb) == 0..(len(cb) - 1)

\* The lexical productions name(a) -> words[j], by their place in the file.
LexicalMatches(j, a) == RulesFor(grammar, index.names[a], <<words[j]>>)

Filling == pos.pc \in {"lex", "bin"}

OperandsFinal ==
    Filling => \A c \in DOMAIN matrix : matrix'[c] # matrix[c] => c \notin reads'

ScoresNeverDecrease ==
    Filling => \A c \in DOMAIN matrix : matrix'[c] >= matrix[c]

\* C8: every step of the fill leaves the cells read so far untouched and
\* lowers no score.
C8_FillOrdering == [][OperandsFinal /\ ScoresNeverDecrease]_vars

\* The first half of C8 alone.
FillOrderOperandsFinal == [][OperandsFinal]_vars

(***************************************************************************)
(* C9. Back pointer closure: in every state of the fill phase and after    *)
(* it, a split (k, B, C) in cell (i, j, a) comes from a binary rule        *)
(* a -> B C of probability p with score[i][j][a] = p * score[i][k][B] *    *)
(* score[k][j][C] and both operand scores positive; and the tree parse     *)
(* returns is the null tree or has no null-labelled node.                  *)
(***************************************************************************)
RECURSIVE NoNullNode(_)
NoNullNode(t) ==
    t.kind = "leaf"
        \/ /\ t.label # None
           /\ \A n \in DOMAIN t.children : NoNullNode(t.children[n])

\* C9: every split in the tables is backed by a binary rule and by the
\* positive scores of its two parts; no returned tree has a null subtree.
C9_BackpointerClosure ==
    /\ (Filling \/ FillEnded) =>
          \A c \in DOMAIN back_pointer_matrix :
              LET b == back_pointer_matrix[c] IN
              b.kind = "tuple" =>
                  LET l == matrix[<<c[1], b.k, get(index, b.left)>>]
                      r == matrix[<<b.k, c[2], get(index, b.right)>>]
                  IN  /\ l > 0
                      /\ r > 0
                      /\ \E n \in RulesFor(grammar, index.names[c[3]], <<b.left, b.right>>) :
                            matrix[c] = grammar[n].prob * l * r
    /\ Returned => (result = NullTree \/ NoNullNode(result))

\* A returned tree of three tokens whose top cell was won by a later
\* candidate than the first one tried (k = 1 with the first binary rule).
C9_Witness ==
    /\ Returned
    /\ Len(words) = 3
    /\ result.kind = "tree"
    /\ Len(result.children) = 2
    /\ LET b == back_pointer_matrix[<<0, 3, get(index, start(grammar))>>]
       IN  /\ b.kind = "tuple"
           /\ <<b.k, b.left, b.right>> # <<1, nonterminals(grammar)[1].rhs[1],
                                              nonterminals(grammar)[1].rhs[2]>>

(***************************************************************************)
(* The CodeBook on its own: built from the names of a set in some          *)
(* iteration order, then any calls of add.                                 *)
(***************************************************************************)
CodeBookNames == {"S", "NP", "VP", "PP"}

InitCodeBook ==
    /\ \E names \in SUBSET CodeBookNames :
          \E e \in Enumerations(names) : index = CodeBook(e)
    /\ file = <<>>
    /\ grammar = <<>>
    /\ words = <<>>
    /\ matrix = <<>>
    /\ back_pointer_matrix = <<>>
    /\ pos = Position("codebook")
    /\ result = NoResult
    /\ err = None
    /\ reads = {}
    /\ added = None

\* index.add(name).
Add(name) ==
    /\ pos.pc = "codebook"
    /\ index' = add(index, name)
    /\ added' = name
    /\ UNCHANGED <<file, grammar, words, matrix, back_pointer_matrix, pos, result,
                   err, reads>>

NextCodeBook == \E name \in CodeBookNames : Add(name)

SpecCodeBook == InitCodeBook /\ [][NextCodeBook]_vars

(***************************************************************************)
(* C10. Code book bijection: after construction from distinct names and    *)
(* any calls of add, index and names are mutual inverses and the indices   *)
(* are exactly 0..len-1; add of a name already present changes nothing,    *)
(* and add of a new name gives it the previous size as its index and       *)
(* leaves the index of every other name as it was.                         *)
(***************************************************************************)
Bijection(cb) ==
    /\ DOMAIN cb.names = 0..(len(cb) - 1)
    /\ \A nm \in DOMAIN cb.index :
          cb.index[nm] \in DOMAIN cb.names /\ cb.names[cb.index[nm]] = nm
    /\ \A x \in DOMAIN cb.names :
          cb.names[x] \in DOMAIN cb.index /\ cb.index[cb.names[x]] = x

AddEffect ==
    /\ added' \in DOMAIN index.index => index' = index
    /\ added' \notin DOMAIN index.index =>
          /\ DOMAIN index'.index = DOMAIN index.index \cup {added'}
          /\ index'.index[added'] = len(index)
          /\ \A nm \in DOMAIN index.index : index'.index[nm] = index.index[nm]

\* C10: the code book is always a bijection onto 0..len-1, and every add
\* step has the effect of add.
C10_CodeBookBijection == [](Bijection(index)) /\ [][AddEffect]_vars

\* A name added to a code book of two names or more, holding the last index.
C10_Witness ==
    /\ added # None
    /\ len(index) >= 3
    /\ index.index[added] = len(index) - 1
    /\ index.names[len(index) - 1] = added

====
